---- MODULE Spec2Model ----
(***************************************************************************)
(* Model of src/parser.py: the ParserManager (source registry / lifecycle  *)
(* manager), the UniversalGiftParser runs it schedules as asyncio tasks,   *)
(* and fetch_html with its retries.  One action is one run of a coroutine  *)
(* between two suspension points (asyncio runs a coroutine without         *)
(* interleaving until it awaits).  A run sees fetch_html through what it   *)
(* returns; the attempts of one call are followed in `fetch`, the         *)
(* Quantity field parse_html reads in `parse`, and the fetch_one tasks of  *)
(* a range run's batches, with their semaphore, in `batch`.                *)
(***************************************************************************)
EXTENDS Integers, Sequences, FiniteSets, TLC

VARIABLES
    parsers,    \* ParserManager.parsers : name -> UniversalGiftParser fields
    tasks,      \* ParserManager.tasks   : dict name -> task, in insertion order
    task,       \* the asyncio.Tasks created by start_parser that are still
                \* scheduled or referenced, by identity
    call,       \* the Manager coroutine each caller is suspended in (or idle)
    started,    \* history: the names start_parser ever created a task for
    ret,        \* how the Manager call that completed in the last step ended
    fetch,      \* one fetch_html call followed attempt by attempt: where it is
                \* suspended, its loop variable, and the history of the call
    parse,      \* one parse_html call seen through its Quantity field: the
                \* text of the field and how the extraction ended
    batch,      \* one range run followed fetch by fetch: the fetch_one tasks
                \* of its current batch, their semaphore, the sink calls
    bot         \* the bot's start-all handler: the source_name variable of
                \* each invocation, the invocation whose save_callback each
                \* run was given, and where the last call of one saved

vars == <<parsers, tasks, task, call, started, ret, fetch, parse, batch, bot>>

----------------------------------------------------------------------------
(* Bounds of the model *)

MaxTasks == 2       \* tasks alive (scheduled or referenced) at one time
MaxNum   == 2       \* largest cursor value a Seeking run may reach
MaxQty   == 2       \* largest quantity a fetched document may carry
MaxEmpty == 2       \* consecutive non-advancing Tracking probes followed
MaxLen   == 3       \* characters in the text of a Quantity field
MaxIdx   == 5       \* largest index of a range run followed fetch by fetch
MaxWidth == 2       \* largest max_concurrent of such a run

(* Inputs *)

Names     == {"a", "b"}             \* source names callers may pass
Callers   == {"c1", "c2"}           \* concurrent API / bot handlers
Modes     == {"new", "range", "bad"}
StartNums == 1 .. MaxNum
Ranges    == {<<1, 21>>}            \* (start, end) keyword arguments
ItemIdx   == {1, 2, 21, 41}         \* indices the remote side may publish

\* (start, end) as the range handler passes them (it rejects end < start)
RangeInputs == {<<1, 45>>, <<5, 24>>, <<21, 21>>, <<1, 21>>}

\* characters a Quantity cell may hold: ASCII digits, the separator, a
\* character that is no digit, and SUPERSCRIPT TWO (U+00B2)
Chars == {"0", "1", "2", "/", "x", "sup2"}

\* the texts of a Quantity cell, after strip()
Texts == UNION {[1 .. n -> Chars] : n \in 0 .. MaxLen}

\* (start, end) of the range runs followed fetch by fetch
BatchRanges == {rng \in (1 .. 2) \X (1 .. MaxIdx) : rng[1] <= rng[2]}

(* Program constants *)

max_concurrent        == 10
max_consecutive_empty == 50
retry_attempts        == 3
retry_delay           == 1

NoneQty == -1                                   \* quantity: None
NoInfo  == [num |-> -1, quantity |-> NoneQty]   \* fetch_html returned None

----------------------------------------------------------------------------
(* UniversalGiftParser *)

\* str.isdigit() of one character: true of the ASCII digits and of every
\* other character with the Unicode property Digit, such as U+00B2
isdigit(ch) == ch \in {"0", "1", "2", "sup2"}

\* the characters int() reads as decimal digits, with their values
DecimalValue == [ch \in {"0", "1", "2"} |-> CASE ch = "0" -> 0
                                               [] ch = "1" -> 1
                                               [] ch = "2" -> 2]

\* qty_str.split("/")[0]: the text before the first "/", all of it if none
RECURSIVE split0(_)
split0(s) ==
    IF s = <<>> \/ Head(s) = "/" THEN <<>> ELSE <<Head(s)>> \o split0(Tail(s))

\* "".join(ch for ch in part if ch.isdigit())
join_digits(part) == SelectSeq(part, isdigit)

\* int(num_str) of a text of decimal digits, in base 10
RECURSIVE int(_)
int(num_str) ==
    IF num_str = <<>> THEN 0
    ELSE 10 * int(SubSeq(num_str, 1, Len(num_str) - 1))
            + DecimalValue[num_str[Len(num_str)]]

\* no parse_html call followed yet
IdleParse ==
    [pc |-> "idle", has_field |-> FALSE, qty_str |-> <<>>,
     quantity |-> NoneQty, exc |-> "none"]

\* parse_html, `# Парсинг quantity`: data.get("Quantity", ""), the digits
\* of the part before the first "/", and int() of them, which raises
\* ValueError for a character that is a digit to isdigit() but not to int()
ParseQuantity(has_field, text) ==
    LET qty_str == IF has_field THEN text ELSE <<>>
        num_str == join_digits(split0(qty_str))
        f       == [IdleParse EXCEPT !.has_field = has_field, !.qty_str = qty_str]
    IN IF qty_str = <<>> \/ num_str = <<>>
       THEN [f EXCEPT !.pc = "returned"]
       ELSE IF \A i \in 1 .. Len(num_str) : num_str[i] \in DOMAIN DecimalValue
            THEN [f EXCEPT !.pc = "returned", !.quantity = int(num_str)]
            ELSE [f EXCEPT !.pc = "raised", !.exc = "ValueError"]

NewParser(start_num) ==
    [num |-> start_num, last_quantity |-> 0, current_info |-> NoInfo,
     is_running |-> FALSE, mode |-> "new"]

\* a stop() that sets the flag of every parser
ParserStop_All(P, n) == [m \in DOMAIN P |-> [P[m] EXCEPT !.is_running = FALSE]]

\* UniversalGiftParser.stop
ParserStop(P, n) == [P EXCEPT ![n].is_running = FALSE]

\* what fetch_html(num) may hand back to the poller
FetchResults(num) ==
    {NoInfo} \cup {[num |-> num, quantity |-> q] : q \in {NoneQty} \cup (0 .. MaxQty)}

\* how one attempt of fetch_html may end: the status of the response (a
\* 200 carrying a document parse_html accepts, or one without the table),
\* asyncio.TimeoutError, or another exception of the request
Outcomes == {"404", "200_item", "200_nodoc", "500", "timeout", "error"}

Transient == {"500", "timeout", "error"}

\* no fetch_html call followed yet
IdleFetch ==
    [pc |-> "idle", num |-> 0, attempt |-> 0, requests |-> 0,
     outcomes |-> <<>>, delays |-> <<>>, result |-> "none"]

\* fetch_html: `return None` / `return info`
FetchReturn(f, result) == [f EXCEPT !.pc = "returned", !.result = result]

\* fetch_html: the next iteration of `for attempt in range(self.retry_attempts)`
\* issues its request; after the last one the loop is left and None returned
FetchAttempt(f, attempt) ==
    IF attempt < retry_attempts
    THEN [f EXCEPT !.pc = "request", !.attempt = attempt, !.requests = @ + 1]
    ELSE FetchReturn([f EXCEPT !.attempt = attempt], "Absent")

\* a failed attempt that is followed by the same delay whatever its number
FetchRetry_ConstantDelay(f) ==
    IF f.attempt < retry_attempts - 1
    THEN [f EXCEPT !.pc = "sleep", !.delays = Append(@, retry_delay)]
    ELSE FetchAttempt(f, f.attempt + 1)

\* a failed attempt whose error, if it was the last attempt, reaches the caller
FetchRetry_RaiseLast(f) ==
    IF f.attempt < retry_attempts - 1
    THEN [f EXCEPT !.pc = "sleep",
                   !.delays = Append(@, retry_delay * (f.attempt + 1))]
    ELSE [f EXCEPT !.pc = "raised", !.result = "FetchError"]

\* fetch_html: a failed attempt (status neither 200 nor 404, timeout, other
\* exception): sleep retry_delay * (attempt + 1) unless it was the last one
FetchRetry(f) ==
    IF f.attempt < retry_attempts - 1
    THEN [f EXCEPT !.pc = "sleep",
                   !.delays = Append(@, retry_delay * (f.attempt + 1))]
    ELSE FetchAttempt(f, f.attempt + 1)

\* fetch_html that treats 404 like any other status that is not 200
FetchOutcome_Retry404(f, o) ==
    LET g == [f EXCEPT !.outcomes = Append(@, o)]
    IN CASE o = "200_item"  -> FetchReturn(g, "Item")
         [] o = "200_nodoc" -> FetchReturn(g, "Absent")
         [] OTHER -> FetchRetry(g)

\* fetch_html that tries again when the document lacks the gift table
FetchOutcome_RetryNoDoc(f, o) ==
    LET g == [f EXCEPT !.outcomes = Append(@, o)]
    IN CASE o = "404"       -> FetchReturn(g, "Absent")
         [] o = "200_item"  -> FetchReturn(g, "Item")
         [] OTHER -> FetchRetry(g)

\* fetch_html: the attempt in flight ended as o
FetchOutcome(f, o) ==
    LET g == [f EXCEPT !.outcomes = Append(@, o)]
    IN CASE o = "404"       -> FetchReturn(g, "Absent")
         [] o = "200_item"  -> FetchReturn(g, "Item")
         [] o = "200_nodoc" -> FetchReturn(g, "Absent")
         [] OTHER -> FetchRetry(g)

\* run_range_mode that takes max_concurrent as the size of a batch
batch_size_Single == max_concurrent

batch_size == max_concurrent * 2

Min(x, y) == IF x < y THEN x ELSE y

RECURSIVE SortedSeq(_)
SortedSeq(S) ==
    IF S = {} THEN <<>>
    ELSE LET m == CHOOSE x \in S : \A y \in S : x <= y
         IN <<m>> \o SortedSeq(S \ {m})

\* what fetch_batch_concurrent(numbers) may return: the non-None results, in
\* the order of numbers (asyncio.gather keeps the order of its arguments)
BatchResults(batch_start, end) ==
    LET numbers == batch_start .. Min(batch_start + batch_size - 1, end)
    IN {SortedSeq(X) : X \in SUBSET (numbers \cap ItemIdx)}

\* run_range_mode: total = end - start + 1
Total(k) == k.end - k.start + 1

----------------------------------------------------------------------------
(* asyncio.Task *)

\* the coroutine of a run: where it is suspended (pc) and its locals.
\* History of the run: sent, the quantity of the last item a continuous run
\* passed to the sink; batches, the (first, last) index of each batch a range
\* run fetched; fetched, the number of results its batches returned; sunk,
\* the number of sink calls it made; reported, the arguments of its last
\* progress_callback call
NewTask(n, mode, rng, progress) ==
    [src |-> n, mode |-> mode, st |-> "pending", pc |-> "start",
     must_cancel |-> FALSE, exc |-> "none", waiters |-> <<>>,
     probe |-> 0, info |-> NoInfo, sent |-> 0, consecutive_empty |-> 0,
     start |-> rng[1], end |-> rng[2], progress |-> progress,
     batch_start |-> 0, parsed |-> 0, results |-> <<>>,
     batches |-> <<>>, fetched |-> 0, sunk |-> 0, reported |-> <<>>]

\* Task.done()
Done(k) == k.st \in {"done", "cancelled", "failed"}

\* a run that is scheduled and has not terminated
Active(k) == ~Done(k)

TaskIds == DOMAIN task

\* the identity of the next task created
FreshId(K) ==
    CHOOSE i \in 1 .. Cardinality(DOMAIN K) + 1 :
        i \notin DOMAIN K /\ \A j \in 1 .. i - 1 : j \in DOMAIN K

\* the tasks still scheduled, held by the Manager or awaited by a caller
Collect(K, T, C) ==
    LET live == {t \in DOMAIN K :
                    \/ Active(K[t])
                    \/ \E i \in 1 .. Len(T) : T[i].id = t
                    \/ \E c \in DOMAIN C : C[c].task = t}
    IN [t \in live |-> K[t]]


----------------------------------------------------------------------------
(* ParserManager.tasks as a Python dict (keys keep insertion order) *)

HasTask(T, n) == \E i \in 1 .. Len(T) : T[i].name = n

TaskOf(T, n) == T[CHOOSE i \in 1 .. Len(T) : T[i].name = n].id

DelTask(T, n) == SelectSeq(T, LAMBDA e : e.name # n)

SetTask(T, n, id) ==
    IF HasTask(T, n)
    THEN [i \in 1 .. Len(T) |-> IF T[i].name = n THEN [name |-> n, id |-> id] ELSE T[i]]
    ELSE Append(T, [name |-> n, id |-> id])

Keys(T) == [i \in 1 .. Len(T) |-> T[i].name]

----------------------------------------------------------------------------
(* ParserManager: the synchronous stretches of its coroutines.             *)
(* M is the world the coroutine of caller c sees; a stretch yields the     *)
(* world it leaves and how it ends: "return", "raise" (exc) or "suspend"   *)
(* (awaiting task, inside stop_parser(name), with rest still to stop).     *)

World ==
    [parsers |-> parsers, tasks |-> tasks, task |-> task, started |-> started,
     call |-> call]

\* found: the state of the handle's task when stop_parser's await was over
Res(m, kind, exc, t, found, n, rest) ==
    [m |-> m, kind |-> kind, exc |-> exc, task |-> t, found |-> found,
     name |-> n, rest |-> rest]

Return(m) == Res(m, "return", "none", 0, "none", "", <<>>)

Raise(m, exc) == Res(m, "raise", exc, 0, "none", "", <<>>)

\* stop_parser that drops the handle only of a task it had to wait for
StopParserTail_KeepDone(M, n, t, c) ==
    LET M1 == [M EXCEPT !.call[c].task = 0]
        M2 == [M1 EXCEPT !.tasks = DelTask(@, n)]
        Drop(W) == [W EXCEPT !.task = Collect(@, W.tasks, W.call)]
        st == M.task[t].st
    IN IF st = "failed"
       THEN Res(Drop(M1), "raise", M.task[t].exc, t, st, n, <<>>)
       ELSE IF ~HasTask(M.tasks, n)
       THEN Res(Drop(M1), "raise", "KeyError", t, st, n, <<>>)
       ELSE IF st = "done"
       THEN Res(Drop(M1), "return", "none", t, st, n, <<>>)
       ELSE Res(Drop(M2), "return", "none", t, st, n, <<>>)

\* stop_parser, from `await task` returning or raising to its end
\* (the local `task` of caller c is its last reference to the task)
StopParserTail(M, n, t, c) ==
    LET M1 == [M EXCEPT !.call[c].task = 0]
        M2 == [M1 EXCEPT !.tasks = DelTask(@, n)]
        Drop(W) == [W EXCEPT !.task = Collect(@, W.tasks, W.call)]
        st == M.task[t].st
    IN IF st = "failed"
       THEN Res(Drop(M1), "raise", M.task[t].exc, t, st, n, <<>>)
       ELSE IF ~HasTask(M.tasks, n)
       THEN Res(Drop(M1), "raise", "KeyError", t, st, n, <<>>)
       ELSE Res(Drop(M2), "return", "none", t, st, n, <<>>)

\* stop_parser that cancels the task and drops its handle without awaiting it
StopParserEnter_NoAwait(M, n, c) ==
    LET M1 == IF n \in DOMAIN M.parsers
              THEN [M EXCEPT !.parsers = ParserStop(@, n)]
              ELSE M
    IN IF ~HasTask(M1.tasks, n) THEN Return(M1)
       ELSE LET t == TaskOf(M1.tasks, n)
            IN IF Done(M1.task[t]) THEN StopParserTail(M1, n, t, c)
               ELSE Res([M1 EXCEPT !.task[t].must_cancel = TRUE,
                                   !.tasks = DelTask(@, n)],
                        "return", "none", t, "none", n, <<>>)

\* stop_parser that looks the task up without testing that there is one
StopParserEnter_NoGuard(M, n, c) ==
    LET M1 == IF n \in DOMAIN M.parsers
              THEN [M EXCEPT !.parsers = ParserStop(@, n)]
              ELSE M
    IN IF ~HasTask(M1.tasks, n) THEN Raise(M1, "KeyError")
       ELSE LET t == TaskOf(M1.tasks, n)
            IN IF Done(M1.task[t]) THEN StopParserTail(M1, n, t, c)
               ELSE Res([M1 EXCEPT !.task[t].must_cancel = TRUE,
                                   !.task[t].waiters = Append(@, c)],
                        "suspend", "none", t, "none", n, <<>>)

\* stop_parser, from its entry up to `await task`; awaiting a task that is
\* done does not suspend
StopParserEnter(M, n, c) ==
    LET M1 == IF n \in DOMAIN M.parsers
              THEN [M EXCEPT !.parsers = ParserStop(@, n)]
              ELSE M
    IN IF ~HasTask(M1.tasks, n) THEN Return(M1)
       ELSE LET t == TaskOf(M1.tasks, n)
            IN IF Done(M1.task[t]) THEN StopParserTail(M1, n, t, c)
               ELSE Res([M1 EXCEPT !.task[t].must_cancel = TRUE,
                                   !.task[t].waiters = Append(@, c)],
                        "suspend", "none", t, "none", n, <<>>)

\* start_parser, after stop_parser ended as r (or was not called: Return)
StartParserLaunch(r, n, mode, rng, progress) ==
    IF r.kind # "return" THEN r
    ELSE IF mode \notin {"new", "range"}
    THEN [r EXCEPT !.kind = "raise", !.exc = "UnknownMode"]
    ELSE [r EXCEPT !.m = [@ EXCEPT
                !.task = @ @@ (FreshId(@) :> NewTask(n, mode, rng, progress)),
                !.tasks = SetTask(@, n, FreshId(r.m.task)),
                !.started = @ \cup {n}]]

\* start_parser that ignores a name it does not know
StartParserEnter_Silent(M, n, mode, rng, progress, c) ==
    IF n \notin DOMAIN M.parsers THEN Return(M)
    ELSE StartParserLaunch(IF HasTask(M.tasks, n) THEN StopParserEnter(M, n, c)
                           ELSE Return(M),
                           n, mode, rng, progress)

\* start_parser that looks at the mode before it stops the run it finds
StartParserEnter_ModeFirst(M, n, mode, rng, progress, c) ==
    IF n \notin DOMAIN M.parsers THEN Raise(M, "ParserNotFound")
    ELSE IF mode \notin {"new", "range"} THEN Raise(M, "UnknownMode")
    ELSE StartParserLaunch(IF HasTask(M.tasks, n) THEN StopParserEnter(M, n, c)
                           ELSE Return(M),
                           n, mode, rng, progress)

\* start_parser, from its entry
StartParserEnter(M, n, mode, rng, progress, c) ==
    IF n \notin DOMAIN M.parsers THEN Raise(M, "ParserNotFound")
    ELSE StartParserLaunch(IF HasTask(M.tasks, n) THEN StopParserEnter(M, n, c)
                           ELSE Return(M),
                           n, mode, rng, progress)

\* stop_all: the loop over the snapshot of keys still to stop, the last
\* stop_parser having ended as r
RECURSIVE StopAllLoop(_, _, _)
StopAllLoop(r, rest, c) ==
    IF r.kind # "return" \/ rest = <<>> THEN [r EXCEPT !.rest = rest]
    ELSE StopAllLoop(StopParserEnter(r.m, Head(rest), c), Tail(rest), c)

\* add_parser that replaces the parser of a registered name
AddParserTo_Overwrite(P, n, start_num) ==
    [x \in DOMAIN P \cup {n} |-> IF x = n THEN NewParser(start_num) ELSE P[x]]

\* add_parser
AddParserTo(P, n, start_num) ==
    IF n \notin DOMAIN P THEN P @@ (n :> NewParser(start_num)) ELSE P

\* get_parser_status that does not look the name up in parsers
GetParserStatus_NoLookup(n) ==
    LET is_running == HasTask(tasks, n) /\ ~Done(task[TaskOf(tasks, n)])
        known == n \in DOMAIN parsers
    IN [status |-> IF is_running THEN "running" ELSE "stopped",
        mode |-> IF known THEN parsers[n].mode ELSE "",
        current_num |-> IF known THEN parsers[n].num ELSE 0,
        last_quantity |-> IF known THEN parsers[n].last_quantity ELSE 0,
        current_info |-> IF known THEN parsers[n].current_info ELSE NoInfo]

\* get_parser_status that takes any handle for a running execution
GetParserStatus_HandleOnly(n) ==
    IF n \notin DOMAIN parsers
    THEN [status |-> "not_found", mode |-> "", current_num |-> 0,
          last_quantity |-> 0, current_info |-> NoInfo]
    ELSE [status |-> IF HasTask(tasks, n) THEN "running" ELSE "stopped",
          mode |-> parsers[n].mode,
          current_num |-> parsers[n].num,
          last_quantity |-> parsers[n].last_quantity,
          current_info |-> parsers[n].current_info]

\* get_parser_status
GetParserStatus(n) ==
    IF n \notin DOMAIN parsers
    THEN [status |-> "not_found", mode |-> "", current_num |-> 0,
          last_quantity |-> 0, current_info |-> NoInfo]
    ELSE LET is_running == HasTask(tasks, n) /\ ~Done(task[TaskOf(tasks, n)])
         IN [status |-> IF is_running THEN "running" ELSE "stopped",
             mode |-> parsers[n].mode,
             current_num |-> parsers[n].num,
             last_quantity |-> parsers[n].last_quantity,
             current_info |-> parsers[n].current_info]

----------------------------------------------------------------------------
(* fetch_batch_concurrent inside run_range_mode, for a parser whose          *)
(* max_concurrent is batch.width.  batch.one gives, for each number of the   *)
(* current batch, where its fetch_one task is: "new" (created by gather, not *)
(* yet run), "waiting" (suspended in semaphore.acquire), "woken" (its future *)
(* has a result, the task has not resumed yet), "fetching" (inside           *)
(* fetch_html, holding the semaphore), "done".  The semaphore is that of     *)
(* asyncio.locks (CPython 3.11): a counter and a FIFO of waiters.            *)

\* no range run followed yet
IdleBatch ==
    [pc |-> "idle", width |-> 1, start |-> 0, end |-> 0, progress |-> FALSE,
     present |-> {}, batch_start |-> 1, batch_end |-> 0, one |-> <<>>,
     value |-> 0, waiters |-> <<>>, results |-> <<>>, emitted |-> <<>>,
     parsed |-> 0, batches |-> <<>>, completed |-> <<>>]

\* the bot's start-all handler, never invoked
NoSave == [run |-> "", source_name |-> ""]

IdleBot == [cell |-> <<>>, sink |-> <<>>, saved |-> NoSave]

\* numbers = list(range(batch_start, batch_end + 1))
numbers(b) == b.batch_start .. b.batch_end

\* Semaphore.locked()
locked(b) == b.value = 0 \/ b.waiters # <<>>

\* Semaphore._wake_up_next(): the first waiter whose future is not done
\* gets the result, and the counter is decremented on its behalf
wake_up_next(b) ==
    LET P == {p \in 1 .. Len(b.waiters) : ~b.waiters[p].done}
    IN IF P = {} THEN b
       ELSE LET p == CHOOSE q \in P : \A r \in P : q <= r
            IN [b EXCEPT !.value = @ - 1, !.waiters[p].done = TRUE,
                         !.one[b.waiters[p].num] = "woken"]

\* Semaphore.release()
release(b) == wake_up_next([b EXCEPT !.value = @ + 1])

\* an acquire that lets the caller in without counting it
acquire_NoCount(b, i) ==
    IF ~locked(b)
    THEN [b EXCEPT !.one[i] = "fetching"]
    ELSE [b EXCEPT !.waiters = Append(@, [num |-> i, done |-> FALSE]),
                   !.one[i] = "waiting"]

\* Semaphore.acquire() up to its return or its `await fut`
acquire(b, i) ==
    IF ~locked(b)
    THEN [b EXCEPT !.value = @ - 1, !.one[i] = "fetching"]
    ELSE [b EXCEPT !.waiters = Append(@, [num |-> i, done |-> FALSE]),
                   !.one[i] = "waiting"]

\* Semaphore.acquire() from `await fut` on: the waiter leaves the queue and,
\* if the counter is positive, wakes the next one
acquired(b, i) ==
    LET NotMe(w) == w.num # i
        c == [b EXCEPT !.waiters = SelectSeq(@, NotMe), !.one[i] = "fetching"]
    IN IF c.value > 0 THEN wake_up_next(c) ELSE c

\* gather that returns as soon as one of its tasks is done
gathered_AnyDone(b) == \E i \in numbers(b) : b.one[i] = "done"

\* asyncio.gather(*tasks): every task is done
gathered(b) == \A i \in numbers(b) : b.one[i] = "done"

\* the results that are dicts, in the order their fetches completed in
successful_results_AsCompleted(b) ==
    LET Item(i) == i \in b.present
    IN SelectSeq(b.completed, Item)

\* successful_results: the results that are dicts, in the order of numbers
successful_results(b) ==
    LET Item(i) == i \in b.present /\ b.one[i] = "done"
    IN SelectSeq([p \in 1 .. (b.batch_end - b.batch_start + 1) |->
                     b.batch_start + p - 1], Item)

\* run_range_mode, after the batch loop: final report, or the end (the
\* tasks of the last gather() are gone)
BatchAfterLoop(b) ==
    IF b.progress THEN [b EXCEPT !.pc = "final", !.completed = <<>>]
    ELSE [b EXCEPT !.pc = "done", !.completed = <<>>]

\* a batch loop whose batches share their boundary number
BatchLoop_Overlap(b, batch_start) ==
    IF batch_start > b.end THEN BatchAfterLoop(b)
    ELSE LET batch_end == Min(batch_start + b.width * 2, b.end)
         IN [b EXCEPT !.pc = "gather",
                      !.batch_start = batch_start, !.batch_end = batch_end,
                      !.one = [i \in batch_start .. batch_end |-> "new"],
                      !.value = b.width, !.waiters = <<>>,
                      !.batches = Append(@, <<batch_start, batch_end>>),
                      !.completed = <<>>]

\* run_range_mode: head of the batch loop of a run that is not stopped, up
\* to gather(): batch_size = max_concurrent * 2, a new Semaphore, one
\* fetch_one task per number
BatchLoop(b, batch_start) ==
    IF batch_start > b.end THEN BatchAfterLoop(b)
    ELSE LET batch_end == Min(batch_start + b.width * 2 - 1, b.end)
         IN [b EXCEPT !.pc = "gather",
                      !.batch_start = batch_start, !.batch_end = batch_end,
                      !.one = [i \in batch_start .. batch_end |-> "new"],
                      !.value = b.width, !.waiters = <<>>,
                      !.batches = Append(@, <<batch_start, batch_end>>),
                      !.completed = <<>>]

\* run_range_mode: `for info in results`, then the progress report
BatchEmit(b) ==
    IF b.results # <<>> THEN [b EXCEPT !.pc = "sink"]
    ELSE IF b.progress THEN [b EXCEPT !.pc = "progress"]
    ELSE [b EXCEPT !.pc = "sleep"]

----------------------------------------------------------------------------
(* Initial state: a freshly constructed ParserManager, nothing called yet *)

IdleCall ==
    [op |-> "idle", name |-> "", mode |-> "", rng |-> <<0, 0>>,
     progress |-> FALSE, task |-> 0, rest |-> <<>>]

\* ret.awaited: the call was suspended in stop_parser before it completed;
\* ret.task, ret.found: the task its last stop_parser found, and in what state
NoRet ==
    [op |-> "none", name |-> "", outcome |-> "none", task |-> 0,
     found |-> "none", awaited |-> FALSE, arg |-> 0, mode |-> ""]

Init ==
    /\ parsers = <<>>
    /\ tasks = <<>>
    /\ task = <<>>
    /\ call = [c \in Callers |-> IdleCall]
    /\ started = {}
    /\ ret = NoRet
    /\ fetch = IdleFetch
    /\ parse = IdleParse
    /\ batch = IdleBatch
    /\ bot = IdleBot

----------------------------------------------------------------------------
(* Manager calls *)

\* the state a synchronous stretch r of caller c's coroutine op(n, ...) leaves
Settle(c, op, n, mode, rng, progress, r) ==
    /\ parsers' = r.m.parsers
    /\ tasks' = r.m.tasks
    /\ started' = r.m.started
    /\ IF r.kind = "suspend"
       THEN /\ call' = [r.m.call EXCEPT ![c] =
                           [op |-> op, name |-> r.name, mode |-> mode, rng |-> rng,
                            progress |-> progress, task |-> r.task, rest |-> r.rest]]
            /\ ret' = NoRet
       ELSE /\ call' = [r.m.call EXCEPT ![c] = IdleCall]
            /\ ret' = [op |-> op, name |-> n,
                       outcome |-> IF r.kind = "return" THEN "ok" ELSE r.exc,
                       task |-> r.task, found |-> r.found,
                       awaited |-> call[c].op # "idle", arg |-> 0,
                       mode |-> mode]
    /\ task' = Collect(r.m.task, tasks', call')
    /\ UNCHANGED <<fetch, parse, batch, bot>>

\* starts whose create_task is still to come
StartsInProgress == Cardinality({c \in Callers : call[c].op = "start"})

\* add_parser(source_name, base_url, start_num)
AddParser(n, start_num) ==
    /\ parsers' = AddParserTo(parsers, n, start_num)
    /\ ret' = [NoRet EXCEPT !.op = "register", !.name = n, !.arg = start_num,
                            !.outcome = IF n \in DOMAIN parsers THEN "kept" ELSE "added"]
    /\ UNCHANGED <<tasks, task, call, started, fetch, parse, batch, bot>>

\* admin_start_all_monitoring, its `for source in sources` loop: M is the
\* Manager as the loop sees it, b the bot, cell the handler's variable
\* source_name, rest the sources still to visit. No iteration suspends: a
\* source whose status is not running has no handle or a finished task, and
\* awaiting a finished task does not yield.
RECURSIVE StartAllLoop(_, _, _, _)
StartAllLoop(M, b, cell, rest) ==
    IF rest = <<>> THEN [m |-> M, bot |-> b, outcome |-> "ok"]
    ELSE LET source_name == Head(rest)
             b1 == [b EXCEPT !.cell = (cell :> source_name) @@ @]
             running == /\ HasTask(M.tasks, source_name)
                        /\ ~Done(M.task[TaskOf(M.tasks, source_name)])
             r == StartParserEnter(M, source_name, "new", <<0, 0>>, FALSE, "c1")
         IN IF running THEN StartAllLoop(M, b1, cell, Tail(rest))
            ELSE IF r.kind # "return"
            THEN [m |-> r.m, bot |-> b1, outcome |-> r.exc]
            ELSE StartAllLoop(r.m,
                     [b1 EXCEPT !.sink =
                         (TaskOf(r.m.tasks, source_name) :> cell) @@ @],
                     cell, Tail(rest))

\* the closures that can still be called: those of the tasks that exist
LiveClosures(b, K) ==
    LET sink == [t \in DOMAIN b.sink \cap DOMAIN K |-> b.sink[t]]
    IN [b EXCEPT !.sink = sink,
                 !.cell = [i \in {sink[t] : t \in DOMAIN sink} |-> b.cell[i]]]

\* a new variable source_name, of a new invocation of the handler
FreshCell(b) ==
    CHOOSE i \in 1 .. Cardinality(DOMAIN b.cell) + 1 : i \notin DOMAIN b.cell

\* admin_start_all_monitoring(callback), db.get_sources() having returned
\* sources (active ones, all registered with the Manager when they were
\* added or at startup)
AdminStartAllMonitoring(sources) ==
    /\ \A c \in Callers : call[c].op = "idle"
    /\ \A i \in 1 .. Len(sources) : sources[i] \in DOMAIN parsers
    /\ LET w == StartAllLoop(World, bot, FreshCell(bot), sources)
       IN /\ parsers' = w.m.parsers
          /\ tasks' = w.m.tasks
          /\ started' = w.m.started
          /\ call' = w.m.call
          /\ task' = Collect(w.m.task, tasks', call')
          /\ bot' = LiveClosures(w.bot, task')
          /\ ret' = [NoRet EXCEPT !.op = "start_all", !.outcome = w.outcome,
                                  !.arg = Len(sources)]
    /\ UNCHANGED <<fetch, parse, batch>>

\* get_parser_status(source_name): the call returns what it read
Status(n) ==
    /\ ret' = [NoRet EXCEPT !.op = "status", !.name = n,
                            !.outcome = GetParserStatus(n).status,
                            !.arg = GetParserStatus(n).current_num]
    /\ UNCHANGED <<parsers, tasks, task, call, started, fetch, parse, batch, bot>>

\* await start_parser(source_name, mode, update_callback, **kwargs)
StartParser(c, n, mode, rng, progress) ==
    /\ call[c].op = "idle"
    /\ Cardinality({t \in TaskIds : ~(HasTask(tasks, n) /\ TaskOf(tasks, n) = t)})
          + StartsInProgress < MaxTasks
    /\ Settle(c, "start", n, mode, rng, progress,
              StartParserEnter(World, n, mode, rng, progress, c))

\* await stop_parser(source_name)
StopParser(c, n) ==
    /\ call[c].op = "idle"
    /\ Settle(c, "stop", n, "", <<0, 0>>, FALSE, StopParserEnter(World, n, c))

\* await stop_all()
StopAll(c) ==
    /\ call[c].op = "idle"
    /\ Settle(c, "stop_all", "*", "", <<0, 0>>, FALSE,
              StopAllLoop(Return(World), Keys(tasks), c))

\* the awaited task is done: the caller suspended in stop_parser goes on,
\* callers waiting for one task in the order they started to wait
Resume(c) ==
    /\ call[c].op # "idle"
    /\ LET t == call[c].task
           n == call[c].name
           M == [World EXCEPT !.task[t].waiters = Tail(@)]
           r == StopParserTail(M, n, t, c)
       IN /\ Done(task[t])
          /\ Head(task[t].waiters) = c
          /\ CASE call[c].op = "stop" ->
                    Settle(c, "stop", n, "", <<0, 0>>, FALSE, r)
               [] call[c].op = "start" ->
                    Settle(c, "start", n, call[c].mode, call[c].rng, call[c].progress,
                           StartParserLaunch(r, n, call[c].mode, call[c].rng,
                                             call[c].progress))
               [] call[c].op = "stop_all" ->
                    Settle(c, "stop_all", "*", "", <<0, 0>>, FALSE,
                           StopAllLoop(r, call[c].rest, c))

----------------------------------------------------------------------------
(* Runs: run_new_mode and run_range_mode, one action per resumption *)

\* the task may be resumed with the result of what it awaits
Resumable(t, pcs) ==
    /\ t \in TaskIds
    /\ task[t].st = "running"
    /\ ~task[t].must_cancel
    /\ task[t].pc \in pcs

\* save_callback(nft_data) given to run t of source n by the start-all
\* handler: a closure, it reads the handler's variable source_name when it
\* is called, for save_nft and for update_source_state
save_callback(b, t, n) ==
    IF t \in DOMAIN b.sink
    THEN [b EXCEPT !.saved = [run |-> n, source_name |-> b.cell[b.sink[t]]]]
    ELSE b

\* the step of task t leaves it as k, the bot as b
StepSink(t, k, b) ==
    /\ task' = Collect([task EXCEPT ![t] = k], tasks, call)
    /\ ret' = NoRet
    /\ bot' = b
    /\ UNCHANGED <<tasks, call, started, fetch, parse, batch>>

\* the step of task t leaves it as k
Step(t, k) == StepSink(t, k, bot)

\* the coroutine of task k is over as st (its frame and locals are gone)
Ended(k, st, exc) ==
    [NewTask(k.src, k.mode, <<0, 0>>, FALSE) EXCEPT
        !.st = st, !.pc = "end", !.exc = exc, !.waiters = k.waiters]

Finished(k) == Ended(k, "done", "none")

Failed(k, exc) == Ended(k, "failed", exc)

\* Seeking that never looks at the stop flag
SeekLoop_NoCheck(P, k) ==
    [k EXCEPT !.pc = "seek_fetch", !.probe = P[k.src].num, !.info = NoInfo]

\* run_new_mode: head of `while self.is_running and not found_initial`,
\* found_initial being False; leaving the loop that way returns
SeekLoop(P, k) ==
    IF P[k.src].is_running
    THEN [k EXCEPT !.pc = "seek_fetch", !.probe = P[k.src].num, !.info = NoInfo]
    ELSE Finished(k)

\* Tracking that never looks at the stop flag
TrackLoop_NoCheck(P, k) ==
    [k EXCEPT !.pc = "track_fetch", !.probe = P[k.src].last_quantity + 1,
              !.info = NoInfo]

\* Tracking that probes the index after the cursor
TrackLoop_AtCursor(P, k) ==
    IF P[k.src].is_running
    THEN [k EXCEPT !.pc = "track_fetch", !.probe = P[k.src].num + 1,
                   !.info = NoInfo]
    ELSE Finished(k)

\* run_new_mode: head of `while self.is_running`
TrackLoop(P, k) ==
    IF P[k.src].is_running
    THEN [k EXCEPT !.pc = "track_fetch", !.probe = P[k.src].last_quantity + 1,
                   !.info = NoInfo]
    ELSE Finished(k)

\* run_new_mode: the pause that ends a Tracking iteration
TrackPause(k) ==
    IF k.consecutive_empty >= max_consecutive_empty
    THEN [k EXCEPT !.pc = "track_pause"]
    ELSE [k EXCEPT !.pc = "track_sleep"]

\* run_range_mode: after the batch loop
RangeAfterLoop(k) ==
    IF k.progress
    THEN [k EXCEPT !.pc = "range_final", !.reported = <<k.parsed, Total(k)>>]
    ELSE Finished(k)

\* Range that never looks at the stop flag
RangeLoop_NoCheck(P, k, batch_start) ==
    IF batch_start > k.end THEN RangeAfterLoop(k)
    ELSE [k EXCEPT !.pc = "range_fetch", !.batch_start = batch_start,
                   !.batches = Append(@, <<batch_start,
                                           Min(batch_start + batch_size - 1, k.end)>>)]

\* run_range_mode: head of `for batch_start in range(start, end + 1, batch_size)`
RangeLoop(P, k, batch_start) ==
    IF batch_start > k.end THEN RangeAfterLoop(k)
    ELSE IF ~P[k.src].is_running THEN RangeAfterLoop(k)
    ELSE [k EXCEPT !.pc = "range_fetch", !.batch_start = batch_start,
                   !.batches = Append(@, <<batch_start,
                                           Min(batch_start + batch_size - 1, k.end)>>)]

\* run_range_mode: what follows the sink calls of a batch
RangeAfterBatch(k) ==
    IF k.progress
    THEN [k EXCEPT !.pc = "range_progress", !.reported = <<k.parsed, Total(k)>>]
    ELSE [k EXCEPT !.pc = "range_sleep"]

\* run_range_mode: `for info in results`
RangeEmit(k) ==
    IF k.results # <<>> THEN [k EXCEPT !.pc = "range_sink", !.sunk = @ + 1]
    ELSE RangeAfterBatch(k)

\* first step of the task: the coroutine runs up to its first fetch
RunStart(t) ==
    /\ t \in TaskIds
    /\ task[t].st = "pending"
    /\ ~task[t].must_cancel
    /\ LET k == [task[t] EXCEPT !.st = "running"]
           P == [parsers EXCEPT ![k.src].mode = k.mode, ![k.src].is_running = TRUE]
       IN /\ parsers' = P
          /\ Step(t, IF k.mode = "new" THEN SeekLoop(P, k) ELSE RangeLoop(P, k, k.start))

\* Seeking that also takes an item of quantity 0 as the first item
SeekFetchDone_ZeroIsHit(t, info) ==
    /\ Resumable(t, {"seek_fetch"})
    /\ info \in FetchResults(task[t].probe)
    /\ LET n == task[t].src
       IN IF info # NoInfo /\ info.quantity # NoneQty /\ info.quantity >= 0
          THEN /\ parsers' = [parsers EXCEPT ![n].last_quantity = info.quantity,
                                             ![n].current_info = info]
               /\ Step(t, [task[t] EXCEPT !.pc = "seek_sink", !.info = info,
                                           !.sent = info.quantity])
          ELSE /\ parsers[n].num < MaxNum
               /\ parsers' = [parsers EXCEPT ![n].num = @ + 1]
               /\ Step(t, [task[t] EXCEPT !.pc = "seek_sleep", !.info = info])

\* Seeking: fetch_html(self.num) returned info
SeekFetchDone(t, info) ==
    /\ Resumable(t, {"seek_fetch"})
    /\ info \in FetchResults(task[t].probe)
    /\ LET n == task[t].src
       IN IF info # NoInfo /\ info.quantity # NoneQty /\ info.quantity > 0
          THEN /\ parsers' = [parsers EXCEPT ![n].last_quantity = info.quantity,
                                             ![n].current_info = info]
               /\ Step(t, [task[t] EXCEPT !.pc = "seek_sink", !.info = info,
                                           !.sent = info.quantity])
          ELSE /\ parsers[n].num < MaxNum
               /\ parsers' = [parsers EXCEPT ![n].num = @ + 1]
               /\ Step(t, [task[t] EXCEPT !.pc = "seek_sleep", !.info = info])

\* Seeking: asyncio.sleep(0.02) is over
SeekSleepDone(t) ==
    /\ Resumable(t, {"seek_sleep"})
    /\ Step(t, SeekLoop(parsers, task[t]))
    /\ UNCHANGED parsers

\* Seeking: update_callback(info) returned; found_initial, on to Tracking
SeekSinkDone(t) ==
    /\ Resumable(t, {"seek_sink"})
    /\ StepSink(t, TrackLoop(parsers, [task[t] EXCEPT !.consecutive_empty = 0]),
                save_callback(bot, t, task[t].src))
    /\ UNCHANGED parsers

\* Tracking that also takes an item whose quantity equals last_quantity
TrackFetchDone_NotStrict(t, info) ==
    /\ Resumable(t, {"track_fetch"})
    /\ info \in FetchResults(task[t].probe)
    /\ LET n == task[t].src
       IN IF info # NoInfo /\ info.quantity # NoneQty
             /\ info.quantity >= parsers[n].last_quantity
          THEN /\ parsers' = [parsers EXCEPT ![n].last_quantity = info.quantity,
                                             ![n].current_info = info]
               /\ Step(t, [task[t] EXCEPT !.pc = "track_sink", !.info = info,
                                           !.sent = info.quantity])
          ELSE /\ \/ task[t].consecutive_empty < MaxEmpty
                  \/ task[t].consecutive_empty = MaxEmpty /\ ~parsers[n].is_running
               /\ parsers' = parsers
               /\ Step(t, TrackPause([task[t] EXCEPT !.consecutive_empty = @ + 1,
                                                     !.probe = 0, !.info = info]))

\* Tracking that keeps the result of a probe that did not advance as last item
TrackFetchDone_MissRecords(t, info) ==
    /\ Resumable(t, {"track_fetch"})
    /\ info \in FetchResults(task[t].probe)
    /\ LET n == task[t].src
       IN IF info # NoInfo /\ info.quantity # NoneQty
             /\ info.quantity > parsers[n].last_quantity
          THEN /\ parsers' = [parsers EXCEPT ![n].last_quantity = info.quantity,
                                             ![n].current_info = info]
               /\ Step(t, [task[t] EXCEPT !.pc = "track_sink", !.info = info,
                                           !.sent = info.quantity])
          ELSE /\ \/ task[t].consecutive_empty < MaxEmpty
                  \/ task[t].consecutive_empty = MaxEmpty /\ ~parsers[n].is_running
               /\ parsers' = [parsers EXCEPT ![n].current_info = info]
               /\ Step(t, TrackPause([task[t] EXCEPT !.consecutive_empty = @ + 1,
                                                     !.probe = 0, !.info = info]))

\* Tracking: fetch_html(next_num) returned info
TrackFetchDone(t, info) ==
    /\ Resumable(t, {"track_fetch"})
    /\ info \in FetchResults(task[t].probe)
    /\ LET n == task[t].src
       IN IF info # NoInfo /\ info.quantity # NoneQty
             /\ info.quantity > parsers[n].last_quantity
          THEN /\ parsers' = [parsers EXCEPT ![n].last_quantity = info.quantity,
                                             ![n].current_info = info]
               /\ Step(t, [task[t] EXCEPT !.pc = "track_sink", !.info = info,
                                           !.sent = info.quantity])
          ELSE /\ \/ task[t].consecutive_empty < MaxEmpty
                  \/ task[t].consecutive_empty = MaxEmpty /\ ~parsers[n].is_running
               /\ parsers' = parsers
               /\ Step(t, TrackPause([task[t] EXCEPT !.consecutive_empty = @ + 1,
                                                     !.probe = 0, !.info = info]))

\* Tracking: update_callback(info) returned
TrackSinkDone(t) ==
    /\ Resumable(t, {"track_sink"})
    /\ StepSink(t, TrackPause([task[t] EXCEPT !.consecutive_empty = 0, !.probe = 0]),
                save_callback(bot, t, task[t].src))
    /\ UNCHANGED parsers

\* Tracking: asyncio.sleep(0.02), or asyncio.sleep(5) and the counter reset
TrackSleepDone(t) ==
    /\ Resumable(t, {"track_sleep", "track_pause"})
    /\ Step(t, TrackLoop(parsers,
                         IF task[t].pc = "track_pause"
                         THEN [task[t] EXCEPT !.consecutive_empty = 0]
                         ELSE task[t]))
    /\ UNCHANGED parsers

\* Range: fetch_batch_concurrent(numbers) returned results
RangeFetchDone(t, results) ==
    /\ Resumable(t, {"range_fetch"})
    /\ results \in BatchResults(task[t].batch_start, task[t].end)
    /\ Step(t, RangeEmit([task[t] EXCEPT !.results = results,
                                         !.fetched = @ + Len(results)]))
    /\ UNCHANGED parsers

\* Range that counts the batches that had results, not the items
RangeSinkDone_CountBatches(t) ==
    /\ Resumable(t, {"range_sink"})
    /\ Step(t, RangeEmit([task[t] EXCEPT
                    !.parsed = IF Len(task[t].results) = 1 THEN @ + 1 ELSE @,
                    !.results = Tail(@)]))
    /\ UNCHANGED parsers

\* Range that keeps the emitted item as the source's position and last item
RangeSinkDone_Records(t) ==
    /\ Resumable(t, {"range_sink"})
    /\ Step(t, RangeEmit([task[t] EXCEPT !.parsed = @ + 1, !.results = Tail(@)]))
    /\ parsers' = [parsers EXCEPT
                      ![task[t].src].num = Head(task[t].results),
                      ![task[t].src].current_info =
                          [num |-> Head(task[t].results), quantity |-> 1]]

\* Range: update_callback(info) returned
RangeSinkDone(t) ==
    /\ Resumable(t, {"range_sink"})
    /\ Step(t, RangeEmit([task[t] EXCEPT !.parsed = @ + 1, !.results = Tail(@)]))
    /\ UNCHANGED parsers

\* Range: progress_callback(parsed, total) of a batch returned
RangeProgressDone(t) ==
    /\ Resumable(t, {"range_progress"})
    /\ Step(t, [task[t] EXCEPT !.pc = "range_sleep"])
    /\ UNCHANGED parsers

\* Range whose loop goes over the same batch again
RangeSleepDone_SameBatch(t) ==
    /\ Resumable(t, {"range_sleep"})
    /\ Step(t, RangeLoop(parsers, task[t], task[t].batch_start))
    /\ UNCHANGED parsers

\* Range: asyncio.sleep(0.1) is over, next batch
RangeSleepDone(t) ==
    /\ Resumable(t, {"range_sleep"})
    /\ Step(t, RangeLoop(parsers, task[t], task[t].batch_start + batch_size))
    /\ UNCHANGED parsers

\* Range: the progress_callback after the loop returned, the coroutine ends
RangeFinalDone(t) ==
    /\ Resumable(t, {"range_final"})
    /\ Step(t, Finished(task[t]))
    /\ UNCHANGED parsers

\* update_callback raised: nothing in the run catches it
SinkFail(t) ==
    /\ Resumable(t, {"seek_sink", "track_sink", "range_sink"})
    /\ Step(t, Failed(task[t], "SinkFault"))
    /\ UNCHANGED parsers

\* progress_callback raised: nothing in the run catches it
ProgressFail(t) ==
    /\ Resumable(t, {"range_progress", "range_final"})
    /\ Step(t, Failed(task[t], "ProgressFault"))
    /\ UNCHANGED parsers

\* Task.cancel() took effect: CancelledError is thrown into the coroutine
\* where it is suspended (or before it ever ran) and nothing catches it
RunCancelled(t) ==
    /\ t \in TaskIds
    /\ Active(task[t])
    /\ task[t].must_cancel
    /\ Step(t, Ended(task[t], "cancelled", "none"))
    /\ UNCHANGED parsers

----------------------------------------------------------------------------
(* fetch_html, one action per resumption *)

\* await self.fetch_html(session, num): the call runs up to its first request
FetchHtml(num) ==
    /\ fetch.pc \in {"idle", "returned", "raised"}
    /\ fetch' = FetchAttempt([IdleFetch EXCEPT !.num = num], 0)
    /\ UNCHANGED <<parsers, tasks, task, call, started, ret, parse, batch, bot>>

\* the request in flight ended as o (response read and parsed, or exception)
FetchResponse(o) ==
    /\ fetch.pc = "request"
    /\ fetch' = FetchOutcome(fetch, o)
    /\ UNCHANGED <<parsers, tasks, task, call, started, ret, parse, batch, bot>>

\* asyncio.sleep(retry_delay * (attempt + 1)) is over: next iteration
FetchSleepDone ==
    /\ fetch.pc = "sleep"
    /\ fetch' = FetchAttempt(fetch, fetch.attempt + 1)
    /\ UNCHANGED <<parsers, tasks, task, call, started, ret, parse, batch, bot>>

\* the task awaiting the fetch was cancelled: CancelledError is thrown at the
\* await (request or sleep); `except Exception` does not catch it
FetchCancelled ==
    /\ fetch.pc \in {"request", "sleep"}
    /\ fetch' = [fetch EXCEPT !.pc = "raised", !.result = "CancelledError"]
    /\ UNCHANGED <<parsers, tasks, task, call, started, ret, parse, batch, bot>>

\* UniversalGiftParser.stop() on the parser of a source: the flag alone, no
\* task is cancelled
stop(n) ==
    /\ n \in DOMAIN parsers
    /\ parsers[n].is_running
    /\ parsers' = ParserStop(parsers, n)
    /\ ret' = NoRet
    /\ UNCHANGED <<tasks, task, call, started, fetch, parse, batch, bot>>

\* parse_html is called on a document whose table has a Quantity row with
\* this text, or no such row
ParseHtml(has_field, text) ==
    /\ has_field \/ text = <<>>
    /\ parse' = ParseQuantity(has_field, text)
    /\ UNCHANGED <<parsers, tasks, task, call, started, ret, fetch, batch, bot>>

\* run_range_mode(start, end, ...) is started on a parser whose
\* max_concurrent is width; fetch_html gives an item exactly for the
\* indices in present
RunRangeMode(start, end, width, progress, present) ==
    /\ batch.pc \in {"idle", "done"}
    /\ batch' = BatchLoop([IdleBatch EXCEPT !.width = width, !.start = start,
                                            !.end = end, !.progress = progress,
                                            !.present = present], start)
    /\ UNCHANGED <<parsers, tasks, task, call, started, ret, fetch, parse, bot>>

\* first step of fetch_one(i): `async with semaphore`; the tasks gather()
\* created run their first step in the order of creation
FetchOneStart(i) ==
    /\ batch.pc = "gather"
    /\ i \in numbers(batch)
    /\ batch.one[i] = "new"
    /\ \A j \in numbers(batch) : j < i => batch.one[j] # "new"
    /\ batch' = acquire(batch, i)
    /\ UNCHANGED <<parsers, tasks, task, call, started, ret, fetch, parse, bot>>

\* fetch_one(i) resumes in acquire() after its future got a result
FetchOneAcquired(i) ==
    /\ batch.pc \in {"gather", "sink", "progress", "sleep"}
    /\ i \in numbers(batch)
    /\ batch.one[i] = "woken"
    /\ batch' = acquired(batch, i)
    /\ UNCHANGED <<parsers, tasks, task, call, started, ret, fetch, parse, bot>>

\* fetch_html(session, i) returned: the semaphore is released, the task done
\* (completed: the order in which the tasks of this gather() finished)
FetchOneDone(i) ==
    /\ batch.pc \in {"gather", "sink", "progress", "sleep"}
    /\ i \in numbers(batch)
    /\ batch.one[i] = "fetching"
    /\ batch' = release([batch EXCEPT !.one[i] = "done",
                                      !.completed = Append(@, i)])
    /\ UNCHANGED <<parsers, tasks, task, call, started, ret, fetch, parse, bot>>

\* gather() returned: fetch_batch_concurrent filters and returns the results
GatherDone ==
    /\ batch.pc = "gather"
    /\ gathered(batch)
    /\ batch' = BatchEmit([batch EXCEPT !.results = successful_results(batch)])
    /\ UNCHANGED <<parsers, tasks, task, call, started, ret, fetch, parse, bot>>

\* update_callback(info) returned: parsed += 1
BatchSinkDone ==
    /\ batch.pc = "sink"
    /\ batch' = BatchEmit([batch EXCEPT !.emitted = Append(@, Head(batch.results)),
                                       !.parsed = @ + 1,
                                       !.results = Tail(@)])
    /\ UNCHANGED <<parsers, tasks, task, call, started, ret, fetch, parse, bot>>

\* progress_callback(parsed, total) of a batch returned
BatchProgressDone ==
    /\ batch.pc = "progress"
    /\ batch' = [batch EXCEPT !.pc = "sleep"]
    /\ UNCHANGED <<parsers, tasks, task, call, started, ret, fetch, parse, bot>>

\* asyncio.sleep(0.1) is over: next batch
BatchSleepDone ==
    /\ batch.pc = "sleep"
    /\ batch' = BatchLoop(batch, batch.batch_start + batch.width * 2)
    /\ UNCHANGED <<parsers, tasks, task, call, started, ret, fetch, parse, bot>>

\* the progress_callback after the loop returned: the coroutine ends
BatchFinalDone ==
    /\ batch.pc = "final"
    /\ batch' = [batch EXCEPT !.pc = "done"]
    /\ UNCHANGED <<parsers, tasks, task, call, started, ret, fetch, parse, bot>>

----------------------------------------------------------------------------
(* Specifications *)

ManagerStep(c, N, Md) ==
    \/ \E n \in N, mode \in Md, progress \in BOOLEAN :
         \E rng \in (IF mode = "range" THEN Ranges ELSE {<<0, 0>>}) :
            /\ mode # "range" => ~progress
            /\ StartParser(c, n, mode, rng, progress)
    \/ \E n \in N : StopParser(c, n)
    \/ StopAll(c)
    \/ Resume(c)

\* the results of fetch_html(num) whose quantity, if any, is in Q
FetchResultsIn(num, Q) ==
    {info \in FetchResults(num) : info.quantity \in Q \cup {NoneQty}}

\* the steps of a task in either mode, and those of a continuous run whose
\* fetched documents carry the quantities Q
NewStep(t, Q) ==
    \/ RunStart(t)
    \/ \E info \in FetchResultsIn(task[t].probe, Q) : SeekFetchDone(t, info)
    \/ SeekSleepDone(t)
    \/ SeekSinkDone(t)
    \/ \E info \in FetchResultsIn(task[t].probe, Q) : TrackFetchDone(t, info)
    \/ TrackSinkDone(t)
    \/ TrackSleepDone(t)
    \/ SinkFail(t)
    \/ RunCancelled(t)

\* the steps of a range run
RangeStep(t) ==
    \/ \E results \in BatchResults(task[t].batch_start, task[t].end) :
          RangeFetchDone(t, results)
    \/ RangeSinkDone(t)
    \/ RangeProgressDone(t)
    \/ RangeSleepDone(t)
    \/ RangeFinalDone(t)
    \/ ProgressFail(t)

Register(N) == \E n \in N, start_num \in StartNums : AddParser(n, start_num)

\* one handler at a time calls the Manager, for one source, in any mode
Next ==
    \/ Register({"a"})
    \/ ManagerStep("c1", {"a"}, Modes)
    \/ \E t \in TaskIds : NewStep(t, 0 .. MaxQty)
    \/ \E t \in TaskIds : RangeStep(t)

Spec == Init /\ [][Next]_vars

\* several handlers start continuous runs of one source and stop them
NextStops ==
    \/ Register({"a"})
    \/ \E c \in Callers : ManagerStep(c, {"a"}, {"new"})
    \/ \E t \in TaskIds : NewStep(t, {1})

SpecStops == Init /\ [][NextStops]_vars

\* the bot: sources are registered, the start-all handler is invoked with
\* the sources the database returns, nothing stops the runs; the sinks are
\* the handler's save_callbacks, which catch what saving raises
SourceLists == {<<"a">>, <<"b">>, <<"a", "b">>, <<"b", "a">>}

BotRunStep(t) ==
    \/ RunStart(t)
    \/ \E info \in FetchResultsIn(task[t].probe, {1}) : SeekFetchDone(t, info)
    \/ SeekSleepDone(t)
    \/ SeekSinkDone(t)
    \/ \E info \in FetchResultsIn(task[t].probe, {1}) : TrackFetchDone(t, info)
    \/ TrackSinkDone(t)
    \/ TrackSleepDone(t)

NextBot ==
    \/ \E n \in Names : AddParser(n, 1)
    \/ \E sources \in SourceLists : AdminStartAllMonitoring(sources)
    \/ \E t \in TaskIds : BotRunStep(t)

SpecBot == Init /\ [][NextBot]_vars

\* the same, status being asked at any moment for any name
NextStatus ==
    \/ Next
    \/ \E n \in Names : Status(n)

SpecStatus == Init /\ [][NextStatus]_vars

\* several handlers call the Manager concurrently, for one source
NextConc ==
    \/ Register({"a"})
    \/ \E c \in Callers : ManagerStep(c, {"a"}, {"new", "bad"})
    \/ \E t \in TaskIds : NewStep(t, {0, 1})

SpecConc == Init /\ [][NextConc]_vars

\* one handler at a time calls the Manager, for any of the sources
NextAll ==
    \/ Register(Names)
    \/ ManagerStep("c1", Names, {"new", "bad"})
    \/ \E t \in TaskIds : NewStep(t, {0, 1})

SpecAll == Init /\ [][NextAll]_vars

\* one handler at a time registers, starts and stops continuous runs of any
\* of the sources
NextTwo ==
    \/ \E n \in Names : AddParser(n, 1)
    \/ \E n \in Names : StartParser("c1", n, "new", <<0, 0>>, FALSE)
    \/ \E n \in Names : StopParser("c1", n)
    \/ StopAll("c1")
    \/ Resume("c1")
    \/ \E t \in TaskIds : NewStep(t, {1})

SpecTwo == Init /\ [][NextTwo]_vars

\* range runs over several intervals, started, replaced and stopped by one
\* handler at a time
NextRange ==
    \/ Register({"a"})
    \/ \E rng \in RangeInputs, progress \in BOOLEAN :
          StartParser("c1", "a", "range", rng, progress)
    \/ StopParser("c1", "a")
    \/ Resume("c1")
    \/ \E t \in TaskIds : RunStart(t)
    \/ \E t \in TaskIds : RangeStep(t)
    \/ \E t \in TaskIds : SinkFail(t)
    \/ \E t \in TaskIds : RunCancelled(t)

SpecRange == Init /\ [][NextRange]_vars

\* a step of the run held by task t, in range mode: its start, the return of
\* the fetch or of the callback it is suspended in, or its cancellation
RangeRunStep(t) ==
    /\ t \in TaskIds
    /\ (RunStart(t) \/ RangeStep(t) \/ RunCancelled(t))

\* SpecRange with every fetch and every callback of a run returning in the
\* end, and the event loop running every task that is ready
FairRange ==
    SpecRange /\ \A t \in 1 .. (MaxTasks + 1) : WF_vars(RangeRunStep(t))

\* one handler at a time calls the Manager for one source, and the stop flag
\* of its parser is also set on its own, as stop() does
NextPoll ==
    \/ Register({"a"})
    \/ StartParser("c1", "a", "new", <<0, 0>>, FALSE)
    \/ \E rng \in RangeInputs, progress \in BOOLEAN :
          StartParser("c1", "a", "range", rng, progress)
    \/ StopParser("c1", "a")
    \/ Resume("c1")
    \/ stop("a")
    \/ \E t \in TaskIds : NewStep(t, {0, 1})
    \/ \E t \in TaskIds : RangeStep(t)

SpecPoll == Init /\ [][NextPoll]_vars

\* a step of the run held by task t, in continuous mode: its start, the
\* return of the fetch, sink call or sleep it is suspended in, or its
\* cancellation
NewRunStep(t) ==
    /\ t \in TaskIds
    /\ NewStep(t, {0, 1})

\* continuous runs of one source, started, replaced and stopped by one
\* handler at a time, the stop flag also being set on its own
NextTrack ==
    \/ Register({"a"})
    \/ StartParser("c1", "a", "new", <<0, 0>>, FALSE)
    \/ StopParser("c1", "a")
    \/ Resume("c1")
    \/ stop("a")
    \/ \E t \in TaskIds : NewStep(t, {0, 1})

\* those runs with every fetch, sink call and sleep of a run returning in
\* the end, and the event loop running every task that is ready
FairTrack ==
    /\ Init
    /\ [][NextTrack]_vars
    /\ \A t \in 1 .. (MaxTasks + 1) : WF_vars(NewRunStep(t))

\* fetch_html calls, each attempt ending in any of the outcomes
NextFetch ==
    \/ \E num \in 1 .. MaxNum : FetchHtml(num)
    \/ \E o \in Outcomes : FetchResponse(o)
    \/ FetchSleepDone
    \/ FetchCancelled

SpecFetch == Init /\ [][NextFetch]_vars

\* range runs followed fetch by fetch, for every width of the semaphore,
\* every set of published indices and every order of fetch completions
NextBatch ==
    \/ \E rng \in BatchRanges, width \in 1 .. MaxWidth, progress \in BOOLEAN :
         \E present \in SUBSET (rng[1] .. rng[2]) :
            RunRangeMode(rng[1], rng[2], width, progress, present)
    \/ \E i \in 1 .. MaxIdx : FetchOneStart(i)
    \/ \E i \in 1 .. MaxIdx : FetchOneAcquired(i)
    \/ \E i \in 1 .. MaxIdx : FetchOneDone(i)
    \/ GatherDone
    \/ BatchSinkDone
    \/ BatchProgressDone
    \/ BatchSleepDone
    \/ BatchFinalDone

SpecBatch == Init /\ [][NextBatch]_vars

\* parse_html calls on documents with any Quantity text, or none
NextParse == \E has_field \in BOOLEAN, text \in Texts : ParseHtml(has_field, text)

SpecParse == Init /\ [][NextParse]_vars

----------------------------------------------------------------------------
(* Claims *)

\* the runs of source n that are scheduled and have not terminated
ActiveRuns(n) == {t \in TaskIds : Active(task[t]) /\ task[t].src = n}

\* task t is the run the Manager's mapping records for its source
Recorded(t) == HasTask(tasks, task[t].src) /\ TaskOf(tasks, task[t].src) = t

\* C1: in every reachable state, whatever the interleaving of concurrent
\* start and stop calls, at most one run of a source is active, and every
\* active run is the run the Manager's mapping records for its source.
C1_AtMostOneActiveRun ==
    \A n \in Names :
        /\ Cardinality(ActiveRuns(n)) <= 1
        /\ \A t \in ActiveRuns(n) : Recorded(t)

\* C2: when start(name, mode) with a valid mode completes for a source that
\* still had the handle of an earlier start (no stop in between), exactly one
\* run is active for name: the new one, which has not made its first probe,
\* so the first run does nothing after the second run's first probe.
C2_RestartLeavesOneRun ==
    (ret.op = "start" /\ ret.task # 0 /\ ret.outcome # "UnknownMode")
        => /\ HasTask(tasks, ret.name)
           /\ ActiveRuns(ret.name) = {TaskOf(tasks, ret.name)}
           /\ task[TaskOf(tasks, ret.name)].st = "pending"

\* C3: when stop(name) has returned for a source that had a run, that run
\* has terminated (a terminated task takes no step: no fetch, no sink call,
\* no progress call).
C3_StopAwaitsRun ==
    (ret.op = "stop" /\ ret.outcome = "ok" /\ ret.task # 0)
        => (ret.task \notin TaskIds \/ Done(task[ret.task]))

\* a stop that found the run active, waited for it and returned
C3_Witness ==
    ret.op = "stop" /\ ret.outcome = "ok" /\ ret.awaited /\ ret.found = "cancelled"

\* C4: after stopAll() no run is active and the Manager holds no execution
\* handle, however many sources were running and however each run ended.
C4_StopAllLeavesNothing ==
    ret.op = "stop_all"
        => /\ ret.outcome = "ok"
           /\ tasks = <<>>
           /\ \A n \in Names : ActiveRuns(n) = {}

\* C5: start(name, ...) for a name that is not registered fails with the
\* unknown-source error (ValueError "Parser ... not found"), starts no run and
\* leaves the registered sources and the execution handles unchanged.
C5_UnknownSourceFailsFast ==
    [][(ret'.op = "start" /\ ret'.name \notin DOMAIN parsers)
          => /\ ret'.outcome = "ParserNotFound"
             /\ UNCHANGED <<parsers, tasks, task, started>>]_vars

\* a start that failed with the unknown-source error
C5_Witness == ret.op = "start" /\ ret.outcome = "ParserNotFound"

\* C6: stop(name) for a source whose Range run has reached the end of its
\* range returns without error and leaves no execution handle for name.
C6_StopAfterNaturalEnd ==
    [][\A n \in Names :
          (/\ ret'.op = "stop" /\ ret'.name = n
           /\ HasTask(tasks, n)
           /\ task[TaskOf(tasks, n)].st = "done"
           /\ task[TaskOf(tasks, n)].mode = "range")
             => (ret'.outcome = "ok" /\ ~HasTask(tasks', n))]_vars

\* a stop that found the Range run of its source already finished
C6_Witness ==
    /\ ret.op = "stop" /\ ret.outcome = "ok"
    /\ ret.found = "done" /\ ~ret.awaited
    /\ parsers[ret.name].mode = "range"
    /\ ~HasTask(tasks, ret.name)

\* C7: when stop(name) is over for a source that had an execution handle, the
\* handle is cleared, however the execution ended.
C7_StopClearsHandle ==
    (ret.op = "stop" /\ ret.task # 0) => ~HasTask(tasks, ret.name)

\* C8: stop(name) for a source that was never started returns without error
\* and changes neither the handles nor any field of the source.
C8_StopNeverStartedNoOp ==
    [][(ret'.op = "stop" /\ ret'.name \notin started)
          => /\ ret'.outcome = "ok"
             /\ UNCHANGED <<parsers, tasks, task, started>>]_vars

\* a stop of a registered source that was never started
C8_Witness ==
    /\ ret.op = "stop" /\ ret.outcome = "ok"
    /\ ret.name \in DOMAIN parsers
    /\ ret.name \notin started

\* C9 as stated: status(name) of a source that was never started is `unknown`
\* (the code's "not_found")
C9_NeverStartedUnknown ==
    \A n \in Names :
        n \notin started => GetParserStatus(n).status \in {"unknown", "not_found"}

\* C9 amended: status(name) of a never-started source is `stopped` when the
\* name is registered, and `unknown` (the code's "not_found") exactly when the
\* name is not registered.
C9_NeverStartedStatus ==
    \A n \in Names :
        /\ n \notin started
              => GetParserStatus(n).status =
                    IF n \in DOMAIN parsers THEN "stopped" ELSE "not_found"
        /\ GetParserStatus(n).status = "not_found" <=> n \notin DOMAIN parsers

\* a registered source that was never started, beside an unregistered one
C9_Witness ==
    \E n \in Names :
        /\ n \in DOMAIN parsers /\ n \notin started
        /\ GetParserStatus(n).status = "stopped"

\* C10: register(name, ...) for a registered name changes nothing: the
\* Poller, its cursor, lastSeenQuantity, last item and any run are kept.
C10_RegisterIdempotent ==
    [][(ret'.op = "register" /\ ret'.name \in DOMAIN parsers)
          => UNCHANGED <<parsers, tasks, task, call, started>>]_vars

\* a second register, with another start index, of a source whose run has
\* already found an item
C10_Witness ==
    /\ ret.op = "register" /\ ret.outcome = "kept"
    /\ ret.arg # parsers[ret.name].num
    /\ parsers[ret.name].last_quantity > 0
    /\ ActiveRuns(ret.name) # {}

\* C11: in every step (register, start in either mode, stop, stopAll, any
\* step of a run with any probe outcome, a stopped and restarted continuous
\* run included) the cursor of each source does not decrease and its
\* lastSeenQuantity does not decrease.
C11_CursorAndQuantityMonotone ==
    [][\A n \in DOMAIN parsers :
          /\ parsers'[n].num >= parsers[n].num
          /\ parsers'[n].last_quantity >= parsers[n].last_quantity]_vars

\* the step emits: task t passes an item to the sink of its continuous run
Emits(t) ==
    /\ t \in DOMAIN task'
    /\ task[t].mode = "new"
    /\ task[t].pc \in {"seek_fetch", "track_fetch"}
    /\ task'[t].pc \in {"seek_sink", "track_sink"}

\* C12: within one continuous run, whatever the fetch results, each item
\* passed to the sink has a quantity strictly greater than the item the run
\* passed before it, and from an emission on (until the next one)
\* lastSeenQuantity equals the quantity of the item emitted last.
C12_EmissionsIncrease ==
    [][/\ \A t \in TaskIds :
            Emits(t) => /\ task'[t].sent = task'[t].info.quantity
                        /\ task'[t].sent > task[t].sent
       /\ \A t \in DOMAIN task' :
            (task'[t].mode = "new" /\ Active(task'[t]) /\ task'[t].sent # 0)
                => parsers'[task'[t].src].last_quantity = task'[t].sent]_vars

\* a run that has emitted a second item, in Tracking
C12_Witness ==
    \E t \in TaskIds :
        /\ task[t].pc = "track_sink"
        /\ task[t].sent = 2
        /\ parsers[task[t].src].last_quantity = 2

\* info is Absent, or carries no quantity, or one not greater than last
NonAdvancing(info, last) ==
    info = NoInfo \/ info.quantity = NoneQty \/ info.quantity <= last

\* C13: a Tracking probe whose result is Absent, or present without a
\* quantity or with a quantity not greater than lastSeenQuantity, passes
\* nothing to the sink, leaves lastSeenQuantity, the last item and the cursor
\* unchanged and adds one to the empty-probe counter, however many such
\* probes came before it.
C13_NonAdvancingProbe ==
    [][\A t \in TaskIds :
          (/\ task[t].pc = "track_fetch"
           /\ t \in DOMAIN task' /\ Active(task'[t])
           /\ task'[t].pc # "track_fetch"
           /\ NonAdvancing(task'[t].info, parsers[task[t].src].last_quantity))
             => /\ task'[t].pc \in {"track_sleep", "track_pause"}
                /\ task'[t].sent = task[t].sent
                /\ task'[t].consecutive_empty = task[t].consecutive_empty + 1
                /\ parsers' = parsers]_vars

\* the second non-advancing probe in a row, its result being an item whose
\* quantity is not greater than lastSeenQuantity
C13_Witness ==
    \E t \in TaskIds :
        /\ task[t].pc = "track_sleep"
        /\ task[t].consecutive_empty = 2
        /\ task[t].info # NoInfo
        /\ task[t].info.quantity # NoneQty
        /\ task[t].info.quantity <= parsers[task[t].src].last_quantity
        /\ parsers[task[t].src].current_info # task[t].info

\* C14: a fault the sink raises while accepting an item, in Continuous or
\* Range mode, is absorbed where the sink is called: no run is ever
\* terminated by it (the run stays active and goes on).
C14_SinkFaultAbsorbed ==
    \A t \in TaskIds : ~(task[t].st = "failed" /\ task[t].exc = "SinkFault")

\* the suspension points at which a run is inside a fetch
FetchPcs == {"seek_fetch", "track_fetch", "range_fetch"}

\* C15: cancellation is cooperative only: a run that has begun a fetch is
\* still active after its next step (the fetch completes and hands its
\* result to the poller; the run ends only at a later stop-flag check), also
\* when stop was called while the fetch was in flight.
C15_FetchCompletesBeforeExit ==
    [][\A t \in TaskIds :
          (Active(task[t]) /\ task[t].pc \in FetchPcs)
             => (t \in DOMAIN task' /\ Active(task'[t]))]_vars

\* C16: within one fetch call, a response with status 404 is the last
\* attempt of the call: no request follows it and the call returns Absent at
\* once; when the first response is 404 exactly one request was made.
C16_NotFoundIsTerminal ==
    \A i \in 1 .. Len(fetch.outcomes) :
        fetch.outcomes[i] = "404"
            => /\ i = Len(fetch.outcomes)
               /\ fetch.requests = i
               /\ fetch.pc = "returned"
               /\ fetch.result = "Absent"

\* a call whose first response was 404
C16_Witness ==
    /\ fetch.outcomes = <<"404">>
    /\ fetch.requests = 1
    /\ fetch.pc = "returned"

\* every attempt of the call so far ended in a transient outcome
AllTransient == \A i \in 1 .. Len(fetch.outcomes) : fetch.outcomes[i] \in Transient

\* C17: a fetch call never makes more than 3 requests, and one whose
\* attempts all ended in a transient outcome (timeout, transport error, status
\* other than 200 and 404, in any mix) returns only after exactly 3 requests,
\* and returns Absent: no error reaches the caller.
C17_TransientExhaustsBudget ==
    /\ fetch.requests <= retry_attempts
    /\ (fetch.pc \in {"returned", "raised"} /\ fetch.outcomes # <<>> /\ AllTransient
        /\ fetch.result # "CancelledError")
          => /\ fetch.requests = 3
             /\ Len(fetch.outcomes) = 3
             /\ fetch.pc = "returned"
             /\ fetch.result = "Absent"

\* a call that returned after three transient failures of three kinds
C17_Witness ==
    /\ fetch.pc = "returned"
    /\ fetch.outcomes = <<"timeout", "500", "error">>
    /\ fetch.result = "Absent"

\* C18: the delay inserted before attempt k (k = 2, 3) of a fetch call is
\* baseDelay * (k - 1), hence at least that: 1 then 2 units, whatever the kind
\* of the transient failure before it; one delay precedes each attempt after
\* the first and none follows the last failed attempt.
C18_LinearBackoff ==
    /\ \A k \in 2 .. fetch.requests :
          /\ k - 1 <= Len(fetch.delays)
          /\ fetch.delays[k - 1] >= retry_delay * (k - 1)
          /\ fetch.delays[k - 1] = k - 1
          /\ fetch.outcomes[k - 1] \in Transient
    /\ Len(fetch.delays) <= retry_attempts - 1
    /\ fetch.pc = "returned" => Len(fetch.delays) = fetch.requests - 1

\* a call that failed three times in three ways, with the delays 1 and 2
C18_Witness ==
    /\ fetch.pc = "returned"
    /\ fetch.outcomes = <<"500", "timeout", "error">>
    /\ fetch.delays = <<1, 2>>

\* B is [start, end] cut into consecutive, disjoint batches of size
\* 2 * max_concurrent, the last one possibly shorter
IsPartition(B, start, end) ==
    /\ Len(B) = (end - start + 2 * max_concurrent) \div (2 * max_concurrent)
    /\ Len(B) > 0 => (B[1][1] = start /\ B[Len(B)][2] = end)
    /\ \A i \in 1 .. Len(B) :
          /\ B[i][1] <= B[i][2]
          /\ i < Len(B) => /\ B[i][2] - B[i][1] + 1 = 2 * max_concurrent
                           /\ B[i + 1][1] = B[i][2] + 1
          /\ i = Len(B) => B[i][2] - B[i][1] + 1 <= 2 * max_concurrent

\* the step ends range run t by its return, the stop flag never having been set
RangeCompletes(t) ==
    /\ task[t].mode = "range" /\ Active(task[t])
    /\ t \in DOMAIN task' /\ task'[t].st = "done"
    /\ parsers'[task[t].src].is_running

\* C19: the batches a Range run that was not stopped has fetched when it
\* ends are consecutive, disjoint, of size 2 * maxConcurrency (the last one
\* possibly shorter) and cover exactly [start, end]; the total it reports is
\* end - start + 1; for start = 1, end = 45 the batches are [1-20], [21-40],
\* [41-45].
C19_RangePartition ==
    [][\A t \in TaskIds :
          RangeCompletes(t)
             => /\ IsPartition(task[t].batches, task[t].start, task[t].end)
                /\ task[t].progress
                      => task[t].reported[2] = task[t].end - task[t].start + 1
                /\ (task[t].start = 1 /\ task[t].end = 45)
                      => task[t].batches = <<<<1, 20>>, <<21, 40>>, <<41, 45>>>>]_vars

\* the run over [1, 45] has fetched its three batches and reports the final
\* count of a total of 45
C19_Witness ==
    \E t \in TaskIds :
        /\ task[t].pc = "range_final"
        /\ task[t].batches = <<<<1, 20>>, <<21, 40>>, <<41, 45>>>>
        /\ task[t].reported[2] = 45

\* C20: the parsedCount of every progress report of a Range run, the final
\* one included, equals the number of non-Absent results of the batches
\* fetched so far and the number of sink calls made so far, does not exceed
\* totalCount, and is not less than the parsedCount of the report before it.
C20_ParsedCount ==
    [][\A t \in DOMAIN task' :
          task'[t].pc \in {"range_progress", "range_final"}
             => /\ task'[t].reported[1] = task'[t].parsed
                /\ task'[t].parsed = task'[t].fetched
                /\ task'[t].parsed = task'[t].sunk
                /\ task'[t].reported[1] <= task'[t].reported[2]
                /\ (t \in TaskIds /\ task[t].reported # <<>>)
                      => task'[t].reported[1] >= task[t].reported[1]]_vars

\* the final report of a run over three batches, two items in one batch and
\* one in another
C20_Witness ==
    \E t \in TaskIds :
        /\ task[t].pc = "range_final"
        /\ Len(task[t].batches) = 3
        /\ task[t].reported = <<3, 45>>
        /\ task[t].sunk = 3

\* a Seeking probe's result that counts as the first item: present, with a
\* quantity, and that quantity positive
SeekHit(info) ==
    info # NoInfo /\ info.quantity # NoneQty /\ info.quantity > 0

\* C23: in Seeking every probe is issued at the current cursor; a probe whose
\* result is Absent, or present with a missing or non-positive quantity, adds
\* exactly 1 to the cursor and changes nothing else of the parser; the first
\* probe giving a present item with quantity > 0 is passed to the sink (the
\* run's first and only Seeking emission), sets lastSeenQuantity to its
\* quantity, leaves the cursor at that index, and the run goes on to
\* Tracking, from which it never returns to Seeking.
C23_Seeking ==
    [][\A t \in TaskIds \cap DOMAIN task' :
          LET k == task[t]
              j == task'[t]
              n == k.src
          IN /\ (j.pc = "seek_fetch" /\ (k.pc # "seek_fetch" \/ k.st = "pending"))
                    => j.probe = parsers'[n].num
             /\ (k.pc = "seek_fetch" /\ Active(j) /\ j.pc # "seek_fetch")
                    => IF SeekHit(j.info)
                       THEN /\ j.pc = "seek_sink"
                            /\ k.sent = 0
                            /\ j.sent = j.info.quantity
                            /\ j.info.num = parsers[n].num
                            /\ parsers'[n].last_quantity = j.info.quantity
                            /\ parsers'[n].current_info = j.info
                            /\ parsers'[n].num = parsers[n].num
                       ELSE /\ j.pc = "seek_sleep"
                            /\ j.sent = k.sent
                            /\ parsers' = [parsers EXCEPT ![n].num = @ + 1]
             /\ (k.pc = "seek_sink" /\ Active(j) /\ j.pc # "seek_sink")
                    => j.pc = "track_fetch" /\ parsers' = parsers
             /\ (k.pc \in {"seek_sink", "track_fetch", "track_sink",
                           "track_sleep", "track_pause"})
                    => j.pc \notin {"seek_fetch", "seek_sleep"}]_vars

\* a first item found at index 2, after the probe of index 1 missed: it has
\* been handed to the sink and the cursor stays at 2
C23_Witness ==
    \E t \in TaskIds :
        /\ task[t].pc = "seek_sink"
        /\ task[t].info.num = 2
        /\ parsers[task[t].src].num = 2
        /\ parsers[task[t].src].last_quantity = task[t].info.quantity

\* the positions of a run that is in Tracking
TrackPcs == {"track_fetch", "track_sink", "track_sleep", "track_pause"}

\* C25: every Tracking probe is issued at lastSeenQuantity + 1, with the
\* value lastSeenQuantity has when the fetch is issued, whatever the cursor
\* is; and no step taken while a run is in Tracking changes the cursor.
C25_TrackingProbe ==
    [][\A t \in TaskIds \cap DOMAIN task' :
          LET k == task[t]
              j == task'[t]
              n == k.src
          IN /\ (j.pc = "track_fetch" /\ k.pc # "track_fetch")
                    => j.probe = parsers'[n].last_quantity + 1
             /\ (Active(k) /\ k.pc \in TrackPcs)
                    => parsers'[n].num = parsers[n].num]_vars

\* a Tracking probe of index 3 in flight while the cursor is 1: the probe
\* follows lastSeenQuantity = 2, not the cursor
C25_Witness ==
    \E t \in TaskIds :
        /\ task[t].pc = "track_fetch"
        /\ task[t].st = "running"
        /\ parsers[task[t].src].num = 1
        /\ parsers[task[t].src].last_quantity = 2
        /\ task[t].probe = 3

\* C26: within one fetch call, a 200 response whose document the extractor
\* reports as not found (no gift table) is the last attempt of the call: the
\* call has returned Absent, without a delay and without another request
\* after it, whatever attempts came before.
C26_StructuralMismatchIsAbsent ==
    \A i \in 1 .. Len(fetch.outcomes) :
        fetch.outcomes[i] = "200_nodoc"
            => /\ i = Len(fetch.outcomes)
               /\ fetch.requests = i
               /\ Len(fetch.delays) = i - 1
               /\ fetch.pc = "returned"
               /\ fetch.result = "Absent"

\* a call whose second attempt, after a timeout, got a document without the
\* gift table, and that returned with retries still left
C26_Witness ==
    /\ fetch.outcomes = <<"timeout", "200_nodoc">>
    /\ fetch.requests = 2
    /\ fetch.requests < retry_attempts
    /\ fetch.pc = "returned"
    /\ fetch.result = "Absent"

\* C29: a started range run that has a progress reporter and ends without
\* a fault, after its last batch or after being stopped, ends from the
\* progress report that follows the batch loop.
C29_FinalProgressReport ==
    [][\A t \in TaskIds \cap DOMAIN task' :
          LET k == task[t]
              j == task'[t]
          IN (/\ k.mode = "range" /\ k.progress
              /\ k.st = "running"
              /\ Done(j) /\ j.st # "failed")
                 => k.pc = "range_final"]_vars

\* the first maximal run of ASCII digits of a text, empty if it has none
RECURSIVE LeadingRun(_)
LeadingRun(s) ==
    IF s = <<>> THEN <<>>
    ELSE IF Head(s) \in DOMAIN DecimalValue
         THEN IF Len(s) > 1 /\ s[2] \in DOMAIN DecimalValue
              THEN <<Head(s)>> \o LeadingRun(Tail(s))
              ELSE <<Head(s)>>
         ELSE LeadingRun(Tail(s))

\* C22: the quantity extracted from a field text is the number written by
\* the leading run of digits of the part before the first "/"; an absent
\* field, or a part without digits, gives an undefined quantity; and the
\* extraction returns for every text, it never raises.
C22_QuantityExtraction ==
    parse.pc # "idle"
        => /\ parse.pc = "returned"
           /\ LET run == LeadingRun(split0(parse.qty_str))
              IN parse.quantity = IF run = <<>> THEN NoneQty ELSE int(run)

C28_StopCheckedBeforeBatch ==
    [][\A t \in TaskIds \cap DOMAIN task' :
          LET k == task[t]
              j == task'[t]
              n == k.src
          IN /\ (/\ j.pc = "range_fetch"
                 /\ (k.pc # "range_fetch" \/ k.st = "pending"))
                   => parsers'[n].is_running
             /\ (/\ k.mode = "range" /\ k.st = "running"
                 /\ k.pc = "range_sleep" /\ ~k.must_cancel
                 /\ ~parsers[n].is_running
                 /\ j.pc # k.pc)
                   => IF k.progress
                      THEN /\ j.pc = "range_final"
                           /\ j.batches = k.batches
                           /\ j.reported = <<k.parsed, Total(k)>>
                      ELSE j.st = "done"]_vars

\* a range run over 1..45 that left the loop after its first batch because
\* the flag was set, two batches short, and is making its final report
C28_Witness ==
    \E t \in TaskIds :
        /\ task[t].pc = "range_final"
        /\ task[t].st = "running"
        /\ ~parsers[task[t].src].is_running
        /\ task[t].batches = <<<<1, 20>>>>
        /\ task[t].end = 45

\* the fetches of the followed range run that are in flight
InFlight == {i \in numbers(batch) : batch.one[i] = "fetching"}

\* C27: at every moment of a range run at most max_concurrent of its
\* fetches are in flight, for every width of the semaphore, every size of
\* batch and every order in which the fetches complete; the semaphore's
\* counter never goes below zero.
C27_BoundedConcurrency ==
    /\ Cardinality(InFlight) <= batch.width
    /\ batch.value >= 0
    /\ batch.value + Cardinality(InFlight) <= batch.width

\* a batch of four under a semaphore of width 2: one fetch is over, two are
\* in flight (one of them let in by the release) and one still waits
C27_Witness ==
    /\ batch.pc = "gather"
    /\ batch.width = 2
    /\ Cardinality(InFlight) = 2
    /\ \E i \in numbers(batch) : batch.one[i] = "done"
    /\ \E i \in numbers(batch) : batch.one[i] = "waiting"

\* the set of the elements of a sequence
Range(s) == {s[p] : p \in 1 .. Len(s)}

\* C21: when a range run has run to completion, the indices it passed to
\* the sink are exactly the indices of [start, end] for which the fetch
\* gave an item, each passed once, whatever the width of the semaphore.
C21_RangeEmitsPresent ==
    batch.pc = "done"
        => /\ Range(batch.emitted) = batch.present \cap (batch.start .. batch.end)
           /\ Len(batch.emitted) = Cardinality(Range(batch.emitted))

\* a completed run of two batches under width 2 in which some indices had
\* an item and some had none
C21_Witness ==
    /\ batch.pc = "done"
    /\ batch.width = 2
    /\ Len(batch.batches) = 2
    /\ Len(batch.emitted) >= 2
    /\ batch.present # batch.start .. batch.end

\* C30: the batches of a range run follow one another in ascending order
\* without sharing an index; fetches run only while their batch is being
\* gathered; the fetch of a batch starts only when every fetch and every
\* sink call of the batch before it is over; and every sink call is for an
\* index of the batch just gathered, all of whose fetches are over.
C30_BatchesInOrder ==
    [][/\ (batch'.pc = "gather" /\ batch.pc \notin {"gather", "idle", "done"})
            => /\ batch.pc = "sleep"
               /\ batch'.batch_start = batch.batch_end + 1
               /\ batch'.batch_end >= batch'.batch_start
               /\ batch.results = <<>>
               /\ gathered(batch)
               /\ \A p \in 1 .. Len(batch.emitted) :
                      batch.emitted[p] < batch'.batch_start
       /\ (batch'.one # batch.one) => batch'.pc = "gather"
       /\ (batch'.emitted # batch.emitted /\ batch.pc = "sink")
            => /\ gathered(batch)
               /\ \E i \in numbers(batch) :
                      batch'.emitted = Append(batch.emitted, i)]_vars

\* a fetch of the second batch in flight after an item of the first batch
\* went to the sink
C30_Witness ==
    /\ batch.pc = "gather"
    /\ Len(batch.batches) = 2
    /\ batch.emitted # <<>>
    /\ InFlight # {}

\* C31: a fault the progress reporter raises during a range run is ignored:
\* no range run is ever terminated by it (the run goes on with the batches
\* that remain).
C31_ProgressFaultIgnored ==
    \A t \in TaskIds : ~(task[t].st = "failed" /\ task[t].exc = "ProgressFault")

\* the number of batches a run over [start, end] may issue
MaxBatches(k) == (Total(k) + batch_size - 1) \div batch_size

\* C32: every range run terminates: as long as its fetches and callbacks
\* return, an active range run has issued at most
\* ceil((end - start + 1) / batchSize) batches and eventually reaches a
\* terminal state; and a source none of whose runs is still active is
\* reported by status as not running.
C32_RangeTerminates ==
    /\ [](\A t \in TaskIds :
             (task[t].mode = "range" /\ Active(task[t]))
                => Len(task[t].batches) <= MaxBatches(task[t]))
    /\ [](\A n \in DOMAIN parsers :
             (\A t \in TaskIds : task[t].src = n => Done(task[t]))
                => GetParserStatus(n).status = "stopped")
    /\ \A t \in 1 .. (MaxTasks + 1) :
          (t \in TaskIds /\ task[t].mode = "range" /\ Active(task[t]))
             ~> (t \notin TaskIds \/ Done(task[t]))

\* a range run that returned after its batches while the Manager still
\* holds its handle: status gives the source as stopped
C32_Witness ==
    \E t \in TaskIds :
        /\ task[t].mode = "range"
        /\ task[t].st = "done"
        /\ HasTask(tasks, task[t].src)
        /\ TaskOf(tasks, task[t].src) = t
        /\ parsers[task[t].src].is_running
        /\ GetParserStatus(task[t].src).status = "stopped"

\* C33: a continuous run in Tracking returns only if its stop flag is set;
\* it starts a probe only in a state where the flag is not set, so that
\* after the flag is set at most the probe in flight completes; and, its
\* fetches, sink calls and sleeps returning, a Tracking run whose flag is
\* set eventually reaches a terminal state.
C33_TrackingRunsUntilStopped ==
    /\ [][\A t \in TaskIds \cap DOMAIN task' :
             LET k == task[t]
                 j == task'[t]
                 n == k.src
             IN /\ (/\ k.mode = "new" /\ k.st = "running"
                    /\ k.pc \in TrackPcs
                    /\ j.st = "done")
                      => ~parsers[n].is_running
                /\ (j.pc = "track_fetch" /\ k.pc # "track_fetch")
                      => parsers'[n].is_running]_vars
    /\ \A t \in 1 .. (MaxTasks + 1) :
          (/\ t \in TaskIds
           /\ task[t].mode = "new" /\ Active(task[t])
           /\ task[t].pc \in TrackPcs
           /\ ~parsers[task[t].src].is_running)
             ~> (t \notin TaskIds \/ Done(task[t]))

\* a Tracking probe in flight whose run has its flag set and is not
\* cancelled: the flag was set by stop() while the run was suspended
C33_Witness ==
    \E t \in TaskIds :
        /\ task[t].pc = "track_fetch"
        /\ task[t].st = "running"
        /\ ~task[t].must_cancel
        /\ ~parsers[task[t].src].is_running

\* what the Manager and the Poller hold for source n: whether it is
\* registered, its execution handle and that execution's state, its stop
\* flag, cursor, lastSeenQuantity and last item
SourceView(T, K, P, n) ==
    [handle  |-> IF HasTask(T, n) THEN TaskOf(T, n) ELSE 0,
     run     |-> IF HasTask(T, n)
                 THEN <<K[TaskOf(T, n)].st, K[TaskOf(T, n)].must_cancel>>
                 ELSE <<>>,
     parser  |-> IF n \in DOMAIN P
                 THEN <<P[n].is_running, P[n].num, P[n].last_quantity,
                        P[n].current_info>>
                 ELSE <<>>]

\* C34: sources are independent: a step that changes what is held for a
\* source B (its registration, execution handle and that execution's state,
\* stop flag, cursor, lastSeenQuantity, last item) is a register, start or
\* stop of B itself, or a step of a run of B that touches no run of another
\* source; stopAll, which is about every source, is the only exception.
C34_SourcesIndependent ==
    [][\A B \in Names :
          SourceView(tasks', task', parsers', B) # SourceView(tasks, task, parsers, B)
             => \/ ret'.op = "stop_all"
                \/ \E c \in Callers :
                      call'[c] # call[c]
                         /\ "stop_all" \in {call[c].op, call'[c].op}
                \/ ret'.op \in {"register", "start", "stop"} /\ ret'.name = B
                \/ \E c \in Callers :
                      /\ call'[c] # call[c]
                      /\ call'[c].op \in {"start", "stop"}
                      /\ call'[c].name = B
                \/ /\ call' = call /\ ret' = NoRet
                   /\ \A u \in TaskIds :
                         task[u].src # B => (u \in DOMAIN task' /\ task'[u] = task[u])]_vars

\* a stop of source a that waited for a's run has just completed while the
\* run of source b is in Tracking, its flag not set
C34_Witness ==
    /\ ret.op = "stop" /\ ret.name = "a" /\ ret.outcome = "ok" /\ ret.awaited
    /\ HasTask(tasks, "b")
    /\ task[TaskOf(tasks, "b")].pc = "track_fetch"
    /\ ~task[TaskOf(tasks, "b")].must_cancel
    /\ parsers["b"].is_running
    /\ parsers["b"].last_quantity > 0

\* C35: status(name) of a registered source says `running` exactly when the
\* Manager holds an execution handle for name and that execution has not
\* finished, and `stopped` otherwise, also when the handle of a finished
\* range run has not been cleared; and the call changes nothing of the
\* Manager or of a Poller.
C35_StatusReflectsHandle ==
    [][ret'.op = "status"
          => /\ UNCHANGED <<parsers, tasks, task, call, started>>
             /\ ret'.name \in DOMAIN parsers
                   => ret'.outcome =
                         IF \E i \in 1 .. Len(tasks) :
                               /\ tasks[i].name = ret'.name
                               /\ task[tasks[i].id].st \in {"pending", "running"}
                         THEN "running" ELSE "stopped"]_vars

\* status asked for a source whose range run has returned and whose handle
\* the Manager still holds: stopped
C35_Witness ==
    /\ ret.op = "status"
    /\ ret.outcome = "stopped"
    /\ HasTask(tasks, ret.name)
    /\ task[TaskOf(tasks, ret.name)].mode = "range"
    /\ task[TaskOf(tasks, ret.name)].st = "done"

\* C36: in a range run the items of one batch are handed to the sink in
\* ascending order of their numbers, whatever order their fetches completed
\* in, so the numbers emitted over the whole run are strictly ascending.
C36_EmittedAscending ==
    LET handed == batch.emitted \o batch.results
    IN \A p, q \in 1 .. Len(handed) : p < q => handed[p] < handed[q]

\* two items of one batch were emitted, the higher one fetched first
C36_Witness ==
    \E p, q \in 1 .. Len(batch.completed), e, f \in 1 .. Len(batch.emitted) :
       /\ p < q /\ e < f
       /\ batch.completed[p] = batch.emitted[f]
       /\ batch.completed[q] = batch.emitted[e]

\* C37: a range run never modifies the cursor, lastSeenQuantity or last item
\* of its source: no step of a range run changes num, last_quantity or
\* current_info, so status reports them after the run as before it,
\* whatever the run emitted.
C37_RangeKeepsPosition ==
    [][\A t \in TaskIds :
          (/\ task[t].mode = "range"
           /\ task[t].st \in {"pending", "running"}
           /\ ret' = NoRet /\ call' = call /\ tasks' = tasks
           /\ (t \notin DOMAIN task' \/ task'[t] # task[t]))
             => LET n == task[t].src
                IN /\ GetParserStatus(n)'.current_num = GetParserStatus(n).current_num
                   /\ GetParserStatus(n)'.last_quantity = GetParserStatus(n).last_quantity
                   /\ GetParserStatus(n)'.current_info = GetParserStatus(n).current_info]_vars

\* a range run has emitted an item of a source whose earlier continuous run
\* had left a last item and moved the cursor
C37_Witness ==
    \E t \in TaskIds :
       /\ task[t].mode = "range"
       /\ task[t].parsed > 0
       /\ parsers[task[t].src].current_info # NoInfo
       /\ parsers[task[t].src].last_quantity > 0

\* C38: start(name, mode) of a registered source with a mode that is
\* neither "new" nor "range" fails with an error and records no new execution
\* handle; a run that was active, or had returned, has been stopped and its
\* handle cleared before the unknown-mode error is raised, so the source is
\* left with no active run.
C38_UnknownModeFails ==
    (ret.op = "start" /\ ret.mode \notin {"new", "range"}
        /\ ret.name \in DOMAIN parsers)
       => /\ ret.outcome # "ok"
          /\ ret.found # "failed"
                => ret.outcome = "UnknownMode" /\ ~HasTask(tasks, ret.name)
          /\ HasTask(tasks, ret.name)
                => /\ TaskOf(tasks, ret.name) = ret.task
                   /\ Done(task[ret.task])
          /\ GetParserStatus(ret.name).status = "stopped"

\* a start with an unknown mode has raised after it cancelled, and waited
\* for, the run that was active
C38_Witness ==
    /\ ret.op = "start"
    /\ ret.mode = "bad"
    /\ ret.outcome = "UnknownMode"
    /\ ret.awaited
    /\ ret.found = "cancelled"
    /\ ~HasTask(tasks, ret.name)

\* C39: when stop(name) is called twice concurrently for a source with an
\* active run, the second call arriving while the first awaits the end of
\* the run, both calls return without error and no execution handle is left
\* for name: a stop that waited for a run that ended cancelled returns.
C39_ConcurrentStopsReturn ==
    (ret.op = "stop" /\ ret.awaited /\ ret.found = "cancelled")
       => ret.outcome = "ok" /\ ~HasTask(tasks, ret.name)

\* C40: every item emitted by a run that the bot's start-all handler
\* started for a source S is saved to the storage of S and updates the
\* persisted state of S, never those of another source, whatever the number
\* and order of the sources of the loop.
C40_SavedToOwnSource ==
    bot.saved.source_name = bot.saved.run

====
